---- MODULE Spec2Model ----
(***************************************************************************)
(* Model of the scraper_agent pipeline: WebScraperAgent.run() (crawl),     *)
(* SiteBuilder.build() (mirror) and SiteComparator.compare() (diff), with  *)
(* the helpers of scraper_agent/utils.py.                                   *)
(*                                                                         *)
(* Strings are sequences of symbols.  A symbol stands for one character or *)
(* for an unbroken run of word characters ("about", "html"); the space,    *)
(* the newline, the no-break space and the punctuation marks are symbols   *)
(* of their own, so that splitting and tokenising are computed.            *)
(***************************************************************************)
EXTENDS Integers, Sequences, FiniteSets, TLC

(* ------------------------------------------------------------------ *)
(* Bounds of the model                                                  *)
(* ------------------------------------------------------------------ *)
MaxPagesBound == 3
MaxDepthBound == 2

None == "None"

(* ------------------------------------------------------------------ *)
(* Strings                                                              *)
(* ------------------------------------------------------------------ *)
Nbsp == "NBSP"
SpaceChars == {" ", "\n", Nbsp}
PunctChars == {".", ",", "!", "/", "-", ":", "#", "?", "<", ">"}

IsSpace(c) == c \in SpaceChars
IsWord(c) == c \notin SpaceChars /\ c \notin PunctChars

RECURSIVE Join(_, _)
Join(sep, ss) ==
    IF ss = <<>> THEN <<>>
    ELSE IF Len(ss) = 1 THEN ss[1]
    ELSE ss[1] \o sep \o Join(sep, Tail(ss))

(* str.split(sep) for a one-symbol separator: always at least one part *)
RECURSIVE Split(_, _)
Split(s, sep) ==
    IF \A i \in 1..Len(s) : s[i] # sep THEN <<s>>
    ELSE LET k == CHOOSE i \in 1..Len(s) : s[i] = sep /\ \A j \in 1..(i - 1) : s[j] # sep
         IN <<SubSeq(s, 1, k - 1)>> \o Split(SubSeq(s, k + 1, Len(s)), sep)

RECURSIVE Strip(_)
Strip(s) ==
    IF s = <<>> THEN s
    ELSE IF IsSpace(s[1]) THEN Strip(Tail(s))
    ELSE IF IsSpace(s[Len(s)]) THEN Strip(SubSeq(s, 1, Len(s) - 1))
    ELSE s

(* _ws_re.sub(" ", text): every maximal run of whitespace becomes one space *)
RECURSIVE CollapseWs(_)
CollapseWs(s) ==
    IF s = <<>> THEN <<>>
    ELSE IF IsSpace(s[1])
         THEN IF Len(s) > 1 /\ IsSpace(s[2]) THEN CollapseWs(Tail(s))
              ELSE <<" ">> \o CollapseWs(Tail(s))
         ELSE <<s[1]>> \o CollapseWs(Tail(s))

clean_text(text) ==
    LET replaced == [i \in 1..Len(text) |-> IF text[i] = Nbsp THEN " " ELSE text[i]]
    IN Strip(CollapseWs(replaced))

(* _word_re.findall: maximal runs of word symbols, maximal runs of        *)
(* non-word non-space symbols; whitespace separates and is dropped.       *)
RECURSIVE FindAllTokens(_, _)
FindAllTokens(s, cur) ==
    IF s = <<>> THEN (IF cur = <<>> THEN <<>> ELSE <<cur>>)
    ELSE IF IsSpace(s[1])
         THEN (IF cur = <<>> THEN <<>> ELSE <<cur>>) \o FindAllTokens(Tail(s), <<>>)
    ELSE IF cur = <<>> \/ IsWord(cur[1]) = IsWord(s[1])
         THEN FindAllTokens(Tail(s), Append(cur, s[1]))
    ELSE <<cur>> \o FindAllTokens(Tail(s), <<s[1]>>)

word_tokensSplit(text) ==
    IF clean_text(text) = <<>> THEN <<>> ELSE Split(clean_text(text), " ")

word_tokens(text) ==
    LET t == clean_text(text)
    IN IF t = <<>> THEN <<>> ELSE FindAllTokens(t, <<>>)

(* ------------------------------------------------------------------ *)
(* URLs: the five components urlparse() yields that the code reads.     *)
(* ------------------------------------------------------------------ *)
Url(scheme, netloc, path) ==
    [scheme |-> scheme, netloc |-> netloc, path |-> path, query |-> "", fragment |-> ""]

Ref(path, fragment) ==
    [scheme |-> "", netloc |-> "", path |-> path, query |-> "", fragment |-> fragment]

EmptyRef == Ref(<<>>, "")

(* the absent URL (Python None where a URL is expected) *)
NoneUrl == [scheme |-> "None", netloc |-> "", path |-> <<>>, query |-> "", fragment |-> ""]

Lower(s) ==
    CASE s = "HTTPS" -> "https"
      [] s = "Example.COM" -> "example.com"
      [] s = "MAILTO" -> "mailto"
      [] s = "JavaScript" -> "javascript"
      [] s = "A.com" -> "a.com"
      [] s = "A.com:8080" -> "a.com:8080"
      [] s = "User@a.com" -> "user@a.com"
      [] OTHER -> s

_DISALLOWED_SCHEMESNoData == {"mailto", "tel", "javascript"}

_DISALLOWED_SCHEMES == {"mailto", "tel", "javascript", "data"}

(* urljoin(base, url) *)
RECURSIVE RemoveDots(_, _)
RemoveDots(segs, acc) ==
    IF segs = <<>> THEN acc
    ELSE IF Head(segs) = <<".", ".">>
         THEN RemoveDots(Tail(segs), IF Len(acc) > 0 THEN SubSeq(acc, 1, Len(acc) - 1) ELSE acc)
    ELSE IF Head(segs) = <<".">> THEN RemoveDots(Tail(segs), acc)
    ELSE RemoveDots(Tail(segs), Append(acc, Head(segs)))

FilterInner(segs) ==
    IF Len(segs) <= 2 THEN segs
    ELSE <<segs[1]>> \o SelectSeq(SubSeq(segs, 2, Len(segs) - 1), LAMBDA x : x # <<>>)
         \o <<segs[Len(segs)]>>

(* the segments of the base path without its last one, the file name *)
BaseParts(bparts) ==
    IF bparts[Len(bparts)] # <<>> THEN SubSeq(bparts, 1, Len(bparts) - 1) ELSE bparts

(* the segments with the dot segments resolved; a trailing dot segment   *)
(* leaves a trailing slash                                                *)
ResolvedPath(segments) ==
    IF segments[Len(segments)] \in {<<".">>, <<".", ".">>}
    THEN Append(RemoveDots(segments, <<>>), <<>>)
    ELSE RemoveDots(segments, <<>>)

Rooted(joined) ==
    IF joined = <<>> THEN <<"/">>
    ELSE IF joined[1] # "/" THEN <<"/">> \o joined ELSE joined

urljoin(base, url) ==
    IF url = EmptyRef THEN base
    ELSE IF url.scheme # "" /\ (url.scheme # base.scheme \/ url.scheme \in _DISALLOWED_SCHEMES)
         THEN url
    ELSE IF url.netloc # ""
         THEN [url EXCEPT !.scheme = base.scheme]
    ELSE IF url.path = <<>>
         THEN [scheme |-> base.scheme, netloc |-> base.netloc, path |-> base.path,
               query |-> IF url.query # "" THEN url.query ELSE base.query,
               fragment |-> url.fragment]
    ELSE [scheme |-> base.scheme, netloc |-> base.netloc,
          path |-> Rooted(Join(<<"/">>, ResolvedPath(
                      IF url.path[1] = "/" THEN Split(url.path, "/")
                      ELSE FilterInner(BaseParts(Split(base.path, "/"))
                                       \o Split(url.path, "/"))))),
          query |-> url.query, fragment |-> url.fragment]

(* normalize_url(url, base_url): NoneUrl when rejected *)
NormalizeParsedAppendSlash(parsed) ==
    IF parsed.scheme = "" \/ parsed.netloc = "" THEN NoneUrl
    ELSE IF Lower(parsed.scheme) \in _DISALLOWED_SCHEMES THEN NoneUrl
    ELSE [parsed EXCEPT !.scheme = Lower(parsed.scheme),
                        !.netloc = Lower(parsed.netloc),
                        !.fragment = "",
                        !.path = parsed.path \o <<"/">>]

NormalizeParsedKeepFragment(parsed) ==
    IF parsed.scheme = "" \/ parsed.netloc = "" THEN NoneUrl
    ELSE IF Lower(parsed.scheme) \in _DISALLOWED_SCHEMES THEN NoneUrl
    ELSE [parsed EXCEPT !.scheme = Lower(parsed.scheme),
                        !.netloc = Lower(parsed.netloc),
                        !.path = IF parsed.path = <<>> THEN <<"/">> ELSE parsed.path]

(* lines 27-43: the checks and the rebuilding of the parsed URL *)
NormalizeParsed(parsed) ==
    IF parsed.scheme = "" \/ parsed.netloc = "" THEN NoneUrl
    ELSE IF Lower(parsed.scheme) \in _DISALLOWED_SCHEMES THEN NoneUrl
    ELSE [parsed EXCEPT !.scheme = Lower(parsed.scheme),
                        !.netloc = Lower(parsed.netloc),
                        !.fragment = "",
                        !.path = IF parsed.path = <<>> THEN <<"/">> ELSE parsed.path]

normalize_url(url, base_url) ==
    IF url = EmptyRef \/ url = NoneUrl THEN NoneUrl
    ELSE NormalizeParsed(IF base_url # NoneUrl THEN urljoin(base_url, url) ELSE url)

(* ------------------------------------------------------------------ *)
(* URL texts: a URL as the string the functions of utils.py are given.  *)
(* The scheme, the netloc, the query and the fragment are one symbol    *)
(* each; ":", "/", "?" and "#" are symbols of their own.                *)
(* ------------------------------------------------------------------ *)
(* Python None where a URL text is expected *)
NoneText == <<"None">>

(* the position of the first c in t, 0 when there is none *)
Find(t, c) ==
    IF \A i \in 1..Len(t) : t[i] # c THEN 0
    ELSE CHOOSE i \in 1..Len(t) : t[i] = c /\ \A j \in 1..(i - 1) : t[j] # c

CutAt(t, k) == IF k = 0 THEN t ELSE SubSeq(t, 1, k - 1)

RestAt(t, k) == IF k = 0 THEN <<>> ELSE SubSeq(t, k + 1, Len(t))

(* str.split(c, 1): what precedes the first c, and what follows it *)
Before(t, c) == CutAt(t, Find(t, c))

After(t, c) == RestAt(t, Find(t, c))

(* a one-symbol component as a field of the parsed URL *)
Field(t) == IF t = <<>> THEN "" ELSE t[1]

(* urlsplit: the scheme is what precedes the first colon, when that is an *)
(* unbroken run of scheme characters; it is lower-cased                   *)
HasScheme(t) == Len(t) >= 2 /\ t[2] = ":" /\ IsWord(t[1])

SchemeOf(t) == IF HasScheme(t) THEN Lower(t[1]) ELSE ""

AfterScheme(t) == IF HasScheme(t) THEN SubSeq(t, 3, Len(t)) ELSE t

(* urlsplit: after "//" the netloc runs up to the next "/", "?" or "#" *)
HasNetloc(t) == Len(t) >= 2 /\ t[1] = "/" /\ t[2] = "/"

NetlocOf(t) ==
    IF HasNetloc(t) /\ Len(t) >= 3 /\ t[3] \notin {"/", "?", "#"} THEN t[3] ELSE ""

AfterNetloc(t) ==
    IF ~HasNetloc(t) THEN t
    ELSE IF NetlocOf(t) # "" THEN SubSeq(t, 4, Len(t)) ELSE SubSeq(t, 3, Len(t))

(* urlsplit: the fragment is cut off first, then the query *)
SplitPath(scheme, netloc, t) ==
    [scheme |-> scheme, netloc |-> netloc,
     path |-> Before(Before(t, "#"), "?"),
     query |-> Field(After(Before(t, "#"), "?")),
     fragment |-> Field(After(t, "#"))]

urlparse(t) == SplitPath(SchemeOf(t), NetlocOf(AfterScheme(t)), AfterNetloc(AfterScheme(t)))

(* the schemes of urllib's uses_netloc that the model's URLs have *)
uses_netloc == {"https", "http", "ftp"}

SlashPath(path) == IF path # <<>> /\ path[1] # "/" THEN <<"/">> \o path ELSE path

(* urlunsplit *)
urlunparse(u) ==
    (IF u.scheme # "" THEN <<u.scheme, ":">> ELSE <<>>)
    \o (IF u.netloc # "" \/ (u.scheme \in uses_netloc /\ ~HasNetloc(u.path))
        THEN (IF u.netloc # "" THEN <<"/", "/", u.netloc>> ELSE <<"/", "/">>)
             \o SlashPath(u.path)
        ELSE u.path)
    \o (IF u.query # "" THEN <<"?", u.query>> ELSE <<>>)
    \o (IF u.fragment # "" THEN <<"#", u.fragment>> ELSE <<>>)

UnparseOrNone(u) == IF u = NoneUrl THEN NoneText ELSE urlunparse(u)

(* lines 23-24: the URL joined to the base, when there is one *)
Resolved(url, base_url) ==
    IF base_url # NoneText THEN urljoin(urlparse(base_url), urlparse(Strip(url)))
    ELSE urlparse(Strip(url))

(* normalize_url on URL texts: lines 19-21 strip the text and reject the  *)
(* empty one, line 26 parses, line 43 unparses                            *)
normalize_url_text(url, base_url) ==
    IF Strip(url) = <<>> THEN NoneText
    ELSE UnparseOrNone(NormalizeParsed(Resolved(url, base_url)))

same_domain(url_a, url_b) == Lower(url_a.netloc) = Lower(url_b.netloc)

(* PurePosixPath(path): the non-empty components, root kept apart *)
PosixParts(path) ==
    SelectSeq(Split(path, "/"), LAMBDA x : x # <<>> /\ x # <<".">>)

(* the root of a PurePosixPath: exactly two leading slashes are kept,    *)
(* any other number of them is one                                        *)
PosixRoot(path) ==
    IF path = <<>> \/ path[1] # "/" THEN <<>>
    ELSE IF Len(path) >= 2 /\ path[2] = "/" /\ (Len(path) = 2 \/ path[3] # "/")
    THEN <<"/", "/">>
    ELSE <<"/">>

(* str(PurePosixPath(path)) *)
PosixStr(path) ==
    IF PosixRoot(path) = <<>> /\ PosixParts(path) = <<>> THEN <<".">>
    ELSE PosixRoot(path) \o Join(<<"/">>, PosixParts(path))

(* str.lstrip("/") *)
RECURSIVE LstripSlash(_)
LstripSlash(s) ==
    IF s # <<>> /\ s[1] = "/" THEN LstripSlash(Tail(s)) ELSE s

(* PurePosixPath.suffix: the last component from its last dot on, when   *)
(* that dot is neither its first nor its last symbol                      *)
HasSuffix(name) ==
    \E i \in 2..(Len(name) - 1) :
        /\ name[i] = "."
        /\ \A j \in (i + 1)..Len(name) : name[j] # "."

(* lines 92-101: the relative path for the components of the URL path *)
RelpathOfParts(posix, parts) ==
    IF posix = <<"/">> THEN <<"index", ".", "html">>
    ELSE IF parts # <<>> /\ HasSuffix(parts[Len(parts)]) THEN LstripSlash(posix)
    ELSE LstripSlash(posix) \o <<"/", "index", ".", "html">>

(* lines 88-90: p.path or "/" *)
PathOrRoot(url) == IF url.path = <<>> THEN <<"/">> ELSE url.path

url_to_site_relpath(url) ==
    RelpathOfParts(PosixStr(PathOrRoot(url)), PosixParts(PathOrRoot(url)))


(* stable_id(url): the first 16 hex digits of the SHA-256 of the URL text, *)
(* tabulated for the URLs of the model.                                    *)
stable_id(url) ==
    LET key == <<url.netloc, url.path>>
    IN CASE key = <<"example.com", <<"/">>>> -> "0f115db062b7c0dd"
         [] key = <<"other.com", <<"/", "s", ".", "js">>>> -> "3a10daa86a505db4"
         [] key = <<"example.com", <<"/", "s", ".", "js">>>> -> "66443126071d98c0"
         [] key = <<"example.com", <<"/", "about">>>> -> "746af0ced5836908"
         [] key = <<"example.com", <<"/", "about", "/">>>> -> "7fbfa9d3e27ed64e"
         [] key = <<"example.com", <<"/", "docs", "/", "deep">>>> -> "88f28df810cc0187"
         [] key = <<"example.com", <<"/", "docs">>>> -> "de106e607d0e7111"
         [] key = <<"other.com", <<"/">>>> -> "e19f6949ed00d432"
         [] key = <<"example.com", <<"/", "logo">>>> -> "ea391e953aee5f58"
         [] OTHER -> "ffffffffffffffff"

(* the ids in the order sorted() gives their file names *)
IdOrder ==
    << "0f115db062b7c0dd", "3a10daa86a505db4", "66443126071d98c0", "746af0ced5836908",
       "7fbfa9d3e27ed64e", "88f28df810cc0187", "de106e607d0e7111", "e19f6949ed00d432",
       "ea391e953aee5f58", "ffffffffffffffff" >>

(* ------------------------------------------------------------------ *)
(* The web the crawler runs against: URLs, documents, sites             *)
(* ------------------------------------------------------------------ *)
Root == Url("https", "example.com", <<"/">>)
RootBare == Url("HTTPS", "Example.COM", <<>>)
About == Url("https", "example.com", <<"/", "about">>)
AboutSlash == Url("https", "example.com", <<"/", "about", "/">>)
Docs == Url("https", "example.com", <<"/", "docs">>)
Deep == Url("https", "example.com", <<"/", "docs", "/", "deep">>)
Other == Url("https", "other.com", <<"/">>)
ScriptJs == Url("https", "example.com", <<"/", "s", ".", "js">>)
CdnJs == Url("https", "other.com", <<"/", "s", ".", "js">>)
Logo == Url("https", "example.com", <<"/", "logo">>)
Mailto == [scheme |-> "mailto", netloc |-> "", path |-> <<"test">>, query |-> "", fragment |-> ""]

Node(tag, s) == [tag |-> tag, s |-> s]

Doc(nodes, hrefs, assets) == [nodes |-> nodes, hrefs |-> hrefs, assets |-> assets]

NotFoundDoc == Doc(<<Node("title", <<"Not", " ", "Found">>)>>, <<>>, <<>>)

SiteNames == {"two", "dup", "chain", "redir", "away"}

(* what the server of a site answers for a URL *)
Page(site, url) ==
    CASE site = "two" /\ url = Root ->
            Doc(<<Node("title", <<"Home">>), Node("p", <<"Welcome", "!">>),
                  Node("a", <<"About">>)>>,
                <<Ref(<<"/", "about">>, "")>>, <<>>)
      [] site = "two" /\ url = About ->
            Doc(<<Node("title", <<"About">>), Node("p", <<"About", Nbsp, "us", ".">>)>>,
                <<>>, <<>>)
      [] site = "dup" /\ url = Root ->
            Doc(<<Node("title", <<"A">>), Node("script", <<"var", " ", "x">>),
                  Node("a", <<"B">>), Node("a", <<"B", " ", "again">>), Node("a", <<"C">>),
                  Node("pre", <<"code", "\n", " ", "here">>)>>,
                <<Ref(<<"/", "about">>, ""), Ref(<<"about">>, "y"), Ref(<<"/", "docs">>, ""),
                  Mailto, EmptyRef>>,
                <<Ref(<<"/", "s", ".", "js">>, ""), CdnJs, Ref(<<"s", ".", "js">>, "")>>)
      [] site = "dup" /\ url = Docs ->
            Doc(<<Node("title", <<"C">>), Node("a", <<"B">>)>>,
                <<About, Other>>, <<Ref(<<"/", "s", ".", "js">>, ""), Ref(<<"/", "logo">>, "")>>)
      [] site = "dup" /\ url = About ->
            Doc(<<Node("title", <<"B">>), Node("a", <<"A">>)>>,
                <<Ref(<<"/">>, "")>>, <<>>)
      [] site = "chain" /\ url = Root ->
            Doc(<<Node("title", <<"Root">>)>>, <<Ref(<<"about">>, "")>>, <<>>)
      [] site = "chain" /\ url = About ->
            Doc(<<Node("title", <<"One">>)>>, <<Ref(<<"docs">>, "")>>, <<>>)
      [] site = "chain" /\ url = Docs ->
            Doc(<<Node("title", <<"Two">>)>>, <<Ref(<<"docs", "/", "deep">>, "")>>, <<>>)
      [] site = "chain" /\ url = Deep ->
            Doc(<<Node("title", <<"Three">>)>>, <<Ref(<<".", ".", "/">>, "")>>, <<>>)
      [] site = "redir" /\ url = Root ->
            Doc(<<Node("title", <<"Home">>), Node("a", <<"About">>)>>,
                <<Ref(<<"/", "about">>, ""), Ref(<<"/", "about", "/">>, "")>>,
                <<Ref(<<"/", "logo">>, "")>>)
      [] site = "redir" /\ url = AboutSlash ->
            Doc(<<Node("title", <<"About">>), Node("a", <<"Docs">>)>>,
                <<Ref(<<".", ".", "/", "docs">>, "")>>, <<Ref(<<"/", "logo">>, "")>>)
      [] site = "away" /\ url = Root ->
            Doc(<<Node("title", <<"Home">>), Node("a", <<"About">>)>>,
                <<Ref(<<"/", "about">>, "")>>, <<Ref(<<"/", "logo">>, "")>>)
      [] site = "away" /\ url = Other ->
            Doc(<<Node("title", <<"Away">>), Node("a", <<"Here">>), Node("a", <<"Deep">>)>>,
                <<Ref(<<"/">>, ""), Deep>>, <<Ref(<<"s", ".", "js">>, "")>>)
      [] OTHER -> NotFoundDoc

(* the URL a request for url ends on after the client followed redirects *)
Redirect(site, url) ==
    IF site = "redir" /\ url = About THEN AboutSlash
    ELSE IF site = "away" /\ url = About THEN Other
    ELSE url

(* the path prefixes the site's robots.txt disallows for the user agent *)
RobotsRules(site) ==
    CASE site = "dup" -> {<<"/", "docs">>, <<"/", "s", ".", "js">>}
      [] site = "redir" -> {<<"/", "docs">>}
      [] OTHER -> {}

(* the extension mimetypes.guess_extension() gives an asset's content type *)
AssetExt(url) == IF url = Logo THEN <<".", "png">> ELSE <<>>


(* ------------------------------------------------------------------ *)
(* State                                                                *)
(* ------------------------------------------------------------------ *)
VARIABLES
    site,            \* the site the crawl runs against
    extracted,       \* the site's HTML answers as _fetch_and_extract parses them
    cfg,             \* the constructor arguments of WebScraperAgent / SiteBuilder
    pc,              \* position in main(): run(), then build(), then compare()
    robots,          \* self._robots
    q,               \* the frontier, a FIFO of (url, depth)
    seen,            \* seen
    seen_assets,     \* seen_assets
    pages_ok, pages_failed, assets_saved,
    page_summaries,
    cur,             \* the (url, depth) dequeued in this iteration
    record,          \* the PageRecord of this iteration
    asset_i,         \* position of the asset loop in record.assets
    pages_dir,       \* out_dir/pages: id -> PageRecord
    raw_html,        \* out_dir/raw/<id>.html: id -> document
    raw_bin,         \* out_dir/raw/<id>.bin: the ids present
    assets_dir,      \* out_dir/assets: the file names present
    summary_json,    \* out_dir/summary.json: empty until written
    fetch_log,       \* history: the page fetches issued, in order
    asset_log,       \* history: the asset downloads issued, in order
    robots_failed    \* history: rp.read() raised in _init_robots

crawl_vars ==
    <<site, extracted, cfg, pc, robots, q, seen, seen_assets, pages_ok, pages_failed, assets_saved,
      page_summaries, cur, record, asset_i, pages_dir, raw_html, raw_bin, assets_dir,
      summary_json, fetch_log, asset_log, robots_failed>>

(* ------------------------------------------------------------------ *)
(* Content extraction (WebScraperAgent._fetch_and_extract)              *)
(* ------------------------------------------------------------------ *)
(* "if u:" keeps the URL normalize_url accepted *)
Kept(u) == IF u = NoneUrl THEN <<>> ELSE <<u>>

RECURSIVE MapNormalize(_, _)
MapNormalize(refs, base_url) ==
    IF refs = <<>> THEN <<>>
    ELSE Kept(IF Head(refs) = EmptyRef THEN NoneUrl ELSE normalize_url(Head(refs), base_url))
         \o MapNormalize(Tail(refs), base_url)

_extract_links(doc, base_url) == MapNormalize(doc.hrefs, base_url)

_extract_assets(doc, base_url) == MapNormalize(doc.assets, base_url)

NonContentTags == {"script", "style", "noscript", "template"}

(* soup(...).decompose(): the document without its non-content nodes *)
Decompose(nodes) == SelectSeq(nodes, LAMBDA n : n.tag \notin NonContentTags)

(* get_text(sep, strip=True): the stripped non-empty strings, joined *)
RECURSIVE StrippedStrings(_)
StrippedStrings(nodes) ==
    IF nodes = <<>> THEN <<>>
    ELSE (IF Strip(Head(nodes).s) = <<>> THEN <<>> ELSE <<Strip(Head(nodes).s)>>)
         \o StrippedStrings(Tail(nodes))

get_text(nodes, sep) == Join(sep, StrippedStrings(nodes))

TitleOf(nodes) ==
    LET titles == SelectSeq(nodes, LAMBDA n : n.tag = "title")
    IN IF titles = <<>> THEN <<>> ELSE <<Strip(titles[1].s)>>

(* lines 224-227: the text of a pre/code node, when it is not empty *)
CodeBlock(tag, txt) == IF tag \in {"pre", "code"} /\ txt # <<>> THEN <<txt>> ELSE <<>>

RECURSIVE CodeBlocks(_)
CodeBlocks(nodes) ==
    IF nodes = <<>> THEN <<>>
    ELSE CodeBlock(Head(nodes).tag, clean_text(get_text(<<Head(nodes)>>, <<"\n">>)))
         \o CodeBlocks(Tail(nodes))

VisibleText(nodes) == clean_text(get_text(Decompose(nodes), <<" ">>))

HtmlRecord(url, final_url, doc) ==
    [url |-> url, final_url |-> final_url, status_code |-> 200,
     title |-> TitleOf(doc.nodes),
     text |-> VisibleText(doc.nodes),
     code_blocks |-> CodeBlocks(Decompose(doc.nodes)),
     links |-> _extract_links(doc, final_url),
     assets |-> _extract_assets(doc, final_url),
     error |-> None]

(* the URLs a page request can be issued on *)
PageUrls == {Root, About, AboutSlash, Docs, Deep, Other}

(* lines 199-236: the record _fetch_and_extract builds from an HTML      *)
(* answer, for every page URL of a site                                   *)
ExtractedRecords(s) ==
    [u \in PageUrls |-> HtmlRecord(u, Redirect(s, u), Page(s, Redirect(s, u)))]

NonHtmlRecordParsed(url, final_url) ==
    [extracted[url] EXCEPT !.error = "Non-HTML content-type"]

(* lines 185-197 *)
NonHtmlRecord(url, final_url) ==
    [url |-> url, final_url |-> final_url, status_code |-> 200,
     title |-> <<>>, text |-> <<>>, code_blocks |-> <<>>, links |-> <<>>, assets |-> <<>>,
     error |-> "Non-HTML content-type"]

ErrorRecord(url) ==
    [url |-> url, final_url |-> url, status_code |-> 0,
     title |-> <<>>, text |-> <<>>, code_blocks |-> <<>>, links |-> <<>>, assets |-> <<>>,
     error |-> "exception"]

NoRecord ==
    [url |-> NoneUrl, final_url |-> NoneUrl, status_code |-> 0,
     title |-> <<>>, text |-> <<>>, code_blocks |-> <<>>, links |-> <<>>, assets |-> <<>>,
     error |-> None]

(* the file name a page record is persisted under *)
PageFileId(url, final_url) == stable_id(url)

(* a directory: file name -> content *)
Put(dir, name, content) ==
    [n \in (DOMAIN dir) \cup {name} |-> IF n = name THEN content ELSE dir[n]]

EmptyDir == [n \in {} |-> None]


MaxPagesChoices == (0..MaxPagesBound) \cup {10}

StartUrlArgs == {Root, RootBare}

Configs ==
    [start_url_arg : StartUrlArgs,
     max_pages : MaxPagesChoices,
     max_depth : 0..MaxDepthBound,
     same_domain_only : BOOLEAN,
     download_assets : BOOLEAN,
     respect_robots : BOOLEAN]

(* WebScraperAgent.__init__ *)
start_url == normalize_url(cfg.start_url_arg, NoneUrl)

_seed_domain == start_url.netloc

NoRobots == [loaded |-> FALSE, rules |-> {}]

CrawlInit ==
    /\ site \in SiteNames
    /\ extracted = ExtractedRecords(site)
    /\ cfg \in Configs
    /\ normalize_url(cfg.start_url_arg, NoneUrl) # NoneUrl
    /\ pc = "start"
    /\ robots = NoRobots
    /\ q = <<>>
    /\ seen = {}
    /\ seen_assets = {}
    /\ pages_ok = 0
    /\ pages_failed = 0
    /\ assets_saved = 0
    /\ page_summaries = <<>>
    /\ cur = [url |-> NoneUrl, depth |-> 0]
    /\ record = NoRecord
    /\ asset_i = 0
    /\ pages_dir = EmptyDir
    /\ raw_html = EmptyDir
    /\ raw_bin = {}
    /\ assets_dir = {}
    /\ summary_json = <<>>
    /\ fetch_log = <<>>
    /\ asset_log = <<>>
    /\ robots_failed = FALSE

(* ------------------------------------------------------------------ *)
(* WebScraperAgent.run()                                                *)
(* ------------------------------------------------------------------ *)
IsPrefix(p, s) == Len(p) <= Len(s) /\ SubSeq(s, 1, Len(p)) = p

(* RobotFileParser.can_fetch: only the path of the URL is matched *)
can_fetch(rules, url) == \A r \in rules : ~IsPrefix(r, url.path)

_init_robotsFailClosed(read_raises) ==
    IF read_raises THEN [loaded |-> TRUE, rules |-> {<<"/">>}]
    ELSE [loaded |-> TRUE, rules |-> RobotsRules(site)]

(* _init_robots: the parser, or None when rp.read() raised *)
_init_robots(read_raises) ==
    IF read_raises THEN NoRobots ELSE [loaded |-> TRUE, rules |-> RobotsRules(site)]

(* lines 65-76: the locals of run() and the robots state *)
StartRun ==
    /\ pc = "start"
    /\ q' = <<[url |-> start_url, depth |-> 0]>>
    /\ IF cfg.respect_robots
       THEN \E read_raises \in BOOLEAN :
               /\ robots' = _init_robots(read_raises)
               /\ robots_failed' = read_raises
       ELSE robots' = NoRobots /\ robots_failed' = FALSE
    /\ pc' = "loop"
    /\ UNCHANGED <<site, extracted, cfg, seen, seen_assets, pages_ok, pages_failed, assets_saved,
                   page_summaries, cur, record, asset_i, pages_dir, raw_html, raw_bin,
                   assets_dir, summary_json, fetch_log, asset_log>>

BudgetLeftInclusive == (pages_ok + pages_failed) <= cfg.max_pages

(* line 90: the budget part of the loop condition *)
BudgetLeft == (pages_ok + pages_failed) < cfg.max_pages

AlreadySeenAsset(url) == url \in seen_assets

(* line 92 *)
AlreadySeen(url) == url \in seen

TooDeepOffByOne(depth) == depth > cfg.max_depth + 1

(* line 96 *)
TooDeep(depth) == depth > cfg.max_depth

OffDomainIgnored(url) == FALSE

(* lines 99 and 136 *)
OffDomain(url) == cfg.same_domain_only /\ url.netloc # _seed_domain

(* lines 102 and 138 *)
RobotsDisallow(url) == robots.loaded /\ ~can_fetch(robots.rules, url)

PopLeftPeek(queue) == queue

(* line 91: the frontier after q.popleft() *)
PopLeft(queue) == Tail(queue)

(* line 94 *)
MarkSeen(url) == seen \cup {url}

(* lines 90-105: dequeue one entry; skip it or go on to fetch it *)
Dequeue ==
    /\ pc = "loop"
    /\ q # <<>>
    /\ BudgetLeft
    /\ LET url == Head(q).url
           depth == Head(q).depth
       IN /\ q' = PopLeft(q)
          /\ IF AlreadySeen(url)
             THEN UNCHANGED <<seen, cur, pc>>
             ELSE /\ seen' = MarkSeen(url)
                  /\ IF TooDeep(depth) \/ OffDomain(url) \/ RobotsDisallow(url)
                     THEN UNCHANGED <<cur, pc>>
                     ELSE /\ cur' = [url |-> url, depth |-> depth]
                          /\ pc' = "fetch"
    /\ UNCHANGED <<site, extracted, cfg, robots, seen_assets, pages_ok, pages_failed, assets_saved,
                   page_summaries, record, asset_i, pages_dir, raw_html, raw_bin,
                   assets_dir, summary_json, fetch_log, asset_log, robots_failed>>

FetchOutcomes == {"html", "other", "raise"}

(* lines 172-257: _fetch_and_extract(client, url) *)
FetchAndExtract ==
    /\ pc = "fetch"
    /\ \E outcome \in FetchOutcomes :
          LET url == cur.url
              final_url == Redirect(site, url)
          IN CASE outcome = "raise" ->
                    /\ record' = ErrorRecord(url)
                    /\ pages_dir' = Put(pages_dir, PageFileId(url, url), ErrorRecord(url))
                    /\ UNCHANGED <<raw_html, raw_bin>>
               [] outcome = "other" ->
                    /\ record' = NonHtmlRecord(url, final_url)
                    /\ raw_bin' = raw_bin \cup {stable_id(url)}
                    /\ UNCHANGED <<pages_dir, raw_html>>
               [] outcome = "html" ->
                    /\ record' = extracted[url]
                    /\ raw_html' = Put(raw_html, stable_id(url), Page(site, final_url))
                    /\ pages_dir' = Put(pages_dir, PageFileId(url, final_url),
                                        extracted[url])
                    /\ UNCHANGED raw_bin
    /\ fetch_log' = Append(fetch_log, [url |-> cur.url, depth |-> cur.depth,
                                       seen |-> cur.url \in seen,
                                       outcome |-> record'.error])
    /\ pc' = "account"
    /\ UNCHANGED <<site, extracted, cfg, robots, q, seen, seen_assets, pages_ok, pages_failed,
                   assets_saved, page_summaries, cur, asset_i, assets_dir, summary_json,
                   asset_log, robots_failed>>

RECURSIVE EnqueueLeft(_, _, _)
EnqueueLeft(queue, links, depth) ==
    IF links = <<>> THEN queue
    ELSE EnqueueLeft(IF Head(links) \notin seen
                     THEN <<[url |-> Head(links), depth |-> depth + 1]>> \o queue
                     ELSE queue,
                     Tail(links), depth)

(* lines 126-129 *)
RECURSIVE Enqueue(_, _, _)
Enqueue(queue, links, depth) ==
    IF links = <<>> THEN queue
    ELSE Enqueue(IF Head(links) \notin seen
                 THEN Append(queue, [url |-> Head(links), depth |-> depth + 1])
                 ELSE queue,
                 Tail(links), depth)

PageSummary(rec) ==
    [url |-> rec.url, final_url |-> rec.final_url, status_code |-> rec.status_code,
     title |-> rec.title, links_count |-> Len(rec.links),
     code_blocks_count |-> Len(rec.code_blocks), assets_count |-> Len(rec.assets),
     error |-> rec.error]

CountOkAlways(rec) == pages_ok + 1

(* lines 108-111 *)
CountOk(rec) == IF rec.error = None THEN pages_ok + 1 ELSE pages_ok

CountFailedRaisedOnly(rec) ==
    IF rec.error = "exception" THEN pages_failed + 1 ELSE pages_failed

CountFailed(rec) == IF rec.error = None THEN pages_failed ELSE pages_failed + 1

(* lines 108-132: count the page, summarise it, enqueue its links *)
Account ==
    /\ pc = "account"
    /\ pages_ok' = CountOk(record)
    /\ pages_failed' = CountFailed(record)
    /\ page_summaries' = Append(page_summaries, PageSummary(record))
    /\ q' = Enqueue(q, record.links, cur.depth)
    /\ IF cfg.download_assets /\ record.error = None /\ record.assets # <<>>
       THEN pc' = "assets" /\ asset_i' = 1
       ELSE pc' = "loop" /\ asset_i' = 0
    /\ UNCHANGED <<site, extracted, cfg, robots, seen, seen_assets, assets_saved, cur, record,
                   pages_dir, raw_html, raw_bin, assets_dir, summary_json, fetch_log,
                   asset_log, robots_failed>>

(* lines 305-310: the file name of a downloaded asset *)
(* os.path.basename(path): what follows the last slash *)
basename(parts) == parts[Len(parts)]

OrAsset(name) == IF name = <<>> THEN <<"asset">> ELSE name

(* lines 308-309: the extension is added to a name without a dot *)
WithExt(name, ext) ==
    IF (\A i \in 1..Len(name) : name[i] # ".") /\ ext # <<>> THEN name \o ext ELSE name

AssetFileName(url) ==
    [id |-> stable_id(url),
     basename |-> WithExt(OrAsset(basename(Split(url.path, "/"))), AssetExt(url))]

AssetSkippedNotSeen(asset_url) ==
    \/ OffDomain(asset_url)
    \/ RobotsDisallow(asset_url)

AssetSkippedAnyDomain(asset_url) ==
    \/ asset_url \in seen_assets
    \/ RobotsDisallow(asset_url)

AssetSkippedNoRobots(asset_url) ==
    \/ asset_url \in seen_assets
    \/ OffDomain(asset_url)

(* lines 134-139: the asset is passed over without a download *)
AssetSkipped(asset_url) ==
    \/ asset_url \in seen_assets
    \/ OffDomain(asset_url)
    \/ RobotsDisallow(asset_url)

(* lines 133-142 and 296-314: one turn of the asset loop *)
AssetStep ==
    /\ pc = "assets"
    /\ LET asset_url == record.assets[asset_i]
       IN IF AssetSkipped(asset_url)
          THEN UNCHANGED <<seen_assets, assets_saved, assets_dir, asset_log>>
          ELSE /\ asset_log' = Append(asset_log, asset_url)
               /\ \E downloaded \in BOOLEAN :
                     IF downloaded
                     THEN /\ assets_dir' = assets_dir \cup {AssetFileName(asset_url)}
                          /\ assets_saved' = assets_saved + 1
                          /\ seen_assets' = seen_assets \cup {asset_url}
                     ELSE UNCHANGED <<seen_assets, assets_saved, assets_dir>>
    /\ IF asset_i < Len(record.assets)
       THEN asset_i' = asset_i + 1 /\ pc' = "assets"
       ELSE asset_i' = 0 /\ pc' = "loop"
    /\ UNCHANGED <<site, extracted, cfg, robots, q, seen, pages_ok, pages_failed, page_summaries,
                   cur, record, pages_dir, raw_html, raw_bin, fetch_log, summary_json,
                   robots_failed>>

(* lines 90 and 144-157: the loop ends, summary.json is written *)
FinishRun ==
    /\ pc = "loop"
    /\ ~(q # <<>> /\ BudgetLeft)
    /\ summary_json' = <<[start_url |-> start_url, pages_ok |-> pages_ok,
                         pages_failed |-> pages_failed, assets_saved |-> assets_saved,
                         pages |-> page_summaries]>>
    /\ pc' = "crawled"
    /\ UNCHANGED <<site, extracted, cfg, robots, q, seen, seen_assets, pages_ok, pages_failed,
                   assets_saved, page_summaries, cur, record, asset_i, pages_dir,
                   raw_html, raw_bin, assets_dir, fetch_log, asset_log, robots_failed>>


(* ------------------------------------------------------------------ *)
(* SiteBuilder                                                          *)
(* ------------------------------------------------------------------ *)
VARIABLES
    site_dir,        \* the mirror: relative path -> HTML document
    site_assets,     \* site_dir/assets: the file names present
    build_summary,   \* out_dir/site_build_summary.json: empty until written
    compare_report   \* out_dir/compare/report.json: empty until written

(* one call of a function of utils.py on its own: what it was given and   *)
(* what it returned                                                       *)
VARIABLES
    args,            \* the function called and its arguments
    result           \* the values the call produced, NoResult before it

vars == <<crawl_vars, site_dir, site_assets, build_summary, compare_report, args, result>>

NoArgs == [op |-> "none"]

NoResult == [op |-> "none"]

(* _load_pages: the records in sorted file-name order, the id injected *)
_load_pages(dir) ==
    LET ids == SelectSeq(IdOrder, LAMBDA i : i \in DOMAIN dir)
    IN [k \in 1..Len(ids) |-> [id |-> ids[k], rec |-> dir[ids[k]]]]

Requested(p) == normalize_url(p.rec.url, NoneUrl)

(* Python's "a or b" on URLs *)
Or(a, b) == IF a # NoneUrl THEN a ELSE b

Final(p) == Or(normalize_url(p.rec.final_url, NoneUrl), Requested(p))

(* lines 45-56: URL -> local html path; later records overwrite earlier *)
PutUrl(map, url, rel) == IF url # NoneUrl THEN Put(map, url, rel) ELSE map

(* lines 47-56: the entries one record adds to url_to_local *)
MapRecord(map, requested, final) ==
    IF final = NoneUrl /\ requested = NoneUrl THEN map
    ELSE PutUrl(PutUrl(map, requested, url_to_site_relpath(Or(final, requested))),
                final, url_to_site_relpath(Or(final, requested)))

RECURSIVE UrlToLocal(_, _)
UrlToLocal(pages, map) ==
    IF pages = <<>> THEN map
    ELSE UrlToLocal(Tail(pages), MapRecord(map, Requested(Head(pages)), Final(Head(pages))))

(* the name of a downloaded asset file: "<stableid>-<basename>" *)
AssetFileStr(f) == <<f.id, "-">> \o f.basename

(* pathlib parent of a relative path, as its components *)
ParentParts(path) ==
    LET parts == Split(path, "/")
    IN SubSeq(parts, 1, Len(parts) - 1)

RECURSIVE CommonLen(_, _)
CommonLen(a, b) ==
    IF a = <<>> \/ b = <<>> \/ Head(a) # Head(b) THEN 0
    ELSE 1 + CommonLen(Tail(a), Tail(b))

(* os.path.relpath(target, start) for paths inside the mirror *)
Ups(n) == [k \in 1..n |-> <<".", ".">>]

RelFrom(start_parts, path_parts, i) ==
    Ups(Len(start_parts) - i) \o SubSeq(path_parts, i + 1, Len(path_parts))

JoinRel(rel) == IF rel = <<>> THEN <<".">> ELSE Join(<<"/">>, rel)

RelParts(start_parts, path_parts) ==
    JoinRel(RelFrom(start_parts, path_parts, CommonLen(start_parts, path_parts)))

relpath(target, start_parts) == RelParts(start_parts, Split(target, "/"))

(* lines 165-177: the new value of one <a href> *)
(* lines 160-163 and 192-195: the attribute value made absolute *)
AbsUrl(val, current_url) ==
    IF val = EmptyRef THEN NoneUrl ELSE normalize_url(val, current_url)

LocalHrefAnyDomain(href, abs_u, current_url, seed_domain, url_to_local) ==
    IF abs_u = NoneUrl THEN href
    ELSE IF abs_u \notin DOMAIN url_to_local THEN href
    ELSE Ref(relpath(url_to_local[abs_u], ParentParts(url_to_local[current_url])), "")

LocalHref(href, abs_u, current_url, seed_domain, url_to_local) ==
    IF abs_u = NoneUrl THEN href
    ELSE IF abs_u.netloc # seed_domain THEN href
    ELSE IF abs_u \notin DOMAIN url_to_local THEN href
    ELSE Ref(relpath(url_to_local[abs_u], ParentParts(url_to_local[current_url])), "")

RewriteHref(href, current_url, seed_domain, url_to_local) ==
    LocalHref(href, AbsUrl(href, current_url), current_url, seed_domain, url_to_local)

(* lines 189-207: the new value of one asset attribute; by_basename is    *)
(* asset_files_by_basename                                                *)
(* Path(urlparse(abs_u).path).name *)
PathName(parts) == IF parts = <<>> THEN <<>> ELSE parts[Len(parts)]

LocalAsset(val, name, current_url, url_to_local, by_basename) ==
    IF name = <<>> THEN val
    ELSE IF name \notin DOMAIN by_basename THEN val
    ELSE Ref(relpath(<<"assets", "/">> \o AssetFileStr(by_basename[name]),
                     ParentParts(url_to_local[current_url])), "")

LocalAssetAttr(val, abs_u, current_url, seed_domain, url_to_local, by_basename) ==
    IF abs_u = NoneUrl THEN val
    ELSE IF abs_u.netloc # seed_domain THEN val
    ELSE LocalAsset(val, PathName(PosixParts(abs_u.path)), current_url, url_to_local,
                    by_basename)

RewriteAssetAttr(val, current_url, seed_domain, url_to_local, by_basename) ==
    LocalAssetAttr(val, AbsUrl(val, current_url), current_url, seed_domain, url_to_local,
                   by_basename)

(* lines 147-214: _rewrite_html *)
_rewrite_html(doc, current_url, seed_domain, url_to_local, by_basename) ==
    IF current_url \notin DOMAIN url_to_local THEN doc
    ELSE [nodes |-> doc.nodes,
          hrefs |-> [k \in 1..Len(doc.hrefs) |->
                        RewriteHref(doc.hrefs[k], current_url, seed_domain, url_to_local)],
          assets |-> [k \in 1..Len(doc.assets) |->
                        RewriteAssetAttr(doc.assets[k], current_url, seed_domain,
                                         url_to_local, by_basename)]]

(* lines 66-93: write the pages in order; the result holds the mirror and *)
(* the pages_written counter                                              *)
(* lines 67-92: one record; it is passed over or its page is written *)
WritePage(p, u, acc, seed_domain, url_to_local, by_basename) ==
    IF u = NoneUrl \/ p.id \notin DOMAIN raw_html \/ u \notin DOMAIN url_to_local
    THEN acc
    ELSE [files |-> Put(acc.files, url_to_local[u],
                        _rewrite_html(raw_html[p.id], u, seed_domain, url_to_local,
                                      by_basename)),
          pages_written |-> acc.pages_written + 1]

RECURSIVE WritePages(_, _, _, _, _)
WritePages(pages, acc, seed_domain, url_to_local, by_basename) ==
    IF pages = <<>> THEN acc
    ELSE WritePages(Tail(pages),
                    WritePage(Head(pages), Final(Head(pages)), acc, seed_domain,
                              url_to_local, by_basename),
                    seed_domain, url_to_local, by_basename)

IndexHtml == <<"index", ".", "html">>

(* the redirect page _write_root_index writes *)
RootIndexDoc(target) ==
    Doc(<<Node("title", <<"Local", " ", "mirror">>),
          Node("p", <<"Redirecting", " ", "to", " ">>),
          Node("a", target)>>,
        <<Ref(target, "")>>, <<>>)

(* lines 110-133: _write_root_index *)
PutRootIndex(files, start) ==
    IF start = NoneUrl THEN files
    ELSE Put(files, IndexHtml, RootIndexDoc(url_to_site_relpath(start)))

_write_root_index(files, start_arg) ==
    IF start_arg = NoneUrl THEN files
    ELSE PutRootIndex(files, normalize_url(start_arg, NoneUrl))

(* the asset files a basename may be mapped to (lines 181-187; the        *)
(* directory is iterated in no particular order, the last file wins)      *)
Basenames(names) == {f.basename : f \in names}

ByBasenameChoices(names) ==
    {m \in [Basenames(names) -> names] : \A b \in Basenames(names) : m[b].basename = b}

RaiseNoPagesAfterIndex(files) == _write_root_index(files, cfg.start_url_arg)

(* lines 36-38: the mirror as the RuntimeError leaves it; build() raises  *)
(* before its first write                                                 *)
RaiseNoPages(files) == files

(* lines 35-38: build() raises when no page record was loaded *)
BuildFail ==
    /\ pc = "crawled"
    /\ _load_pages(pages_dir) = <<>>
    /\ pc' = "build_failed"
    /\ site_dir' = RaiseNoPages(site_dir)
    /\ UNCHANGED <<site, extracted, cfg, robots, q, seen, seen_assets, pages_ok, pages_failed,
                   assets_saved, page_summaries, cur, record, asset_i, pages_dir, raw_html,
                   raw_bin, assets_dir, summary_json, fetch_log, asset_log, robots_failed>>
    /\ UNCHANGED <<site_assets, build_summary, compare_report, args, result>>

(* lines 35-108: build() *)
Build ==
    /\ pc = "crawled"
    /\ _load_pages(pages_dir) # <<>>
    /\ \E pages \in {_load_pages(pages_dir)} :
       \E url_to_local \in {UrlToLocal(pages, EmptyDir)} :
       \E by_basename \in ByBasenameChoices(site_assets \cup assets_dir) :
       \E written \in {WritePages(pages, [files |-> site_dir, pages_written |-> 0],
                                  pages[1].rec.url.netloc, url_to_local, by_basename)} :
          /\ site_assets' = site_assets \cup assets_dir
          /\ site_dir' = _write_root_index(written.files, cfg.start_url_arg)
          /\ build_summary' = <<[pages_written |-> written.pages_written,
                                 assets_copied |-> Cardinality(assets_dir)]>>
    /\ pc' = "built"
    /\ UNCHANGED <<site, extracted, cfg, robots, q, seen, seen_assets, pages_ok, pages_failed,
                   assets_saved, page_summaries, cur, record, asset_i, pages_dir, raw_html,
                   raw_bin, assets_dir, summary_json, fetch_log, asset_log, robots_failed>>
    /\ UNCHANGED <<compare_report, args, result>>


(* ------------------------------------------------------------------ *)
(* SiteComparator                                                       *)
(* ------------------------------------------------------------------ *)
_extract_visible_textNoSeparator(doc) ==
    clean_text(get_text(Decompose(doc.nodes), <<>>))

(* lines 97-101: _extract_visible_text of a mirrored file *)
_extract_visible_text(doc) ==
    clean_text(get_text(Decompose(doc.nodes), <<" ">>))

(* lines 49-52: SequenceMatcher(a, b).get_opcodes() holds an opcode other *)
(* than "equal" exactly when the two token lists differ                   *)
HasDiffs(remote_tokens, local_tokens) == remote_tokens # local_tokens

(* lines 39-70: the per-page entries, in record order *)
(* lines 49-66: the entry of a page whose mirrored file exists *)
PageEntry(url, local_path, remote_tokens, local_tokens) ==
    [url |-> url, local_path |-> local_path,
     remote_words |-> Len(remote_tokens),
     local_words |-> Len(local_tokens),
     has_diffs |-> HasDiffs(remote_tokens, local_tokens)]

ComparePageCountsMissing(p, url, local_path, files) ==
    IF url = NoneUrl THEN <<>>
    ELSE IF local_path \notin DOMAIN files
    THEN <<PageEntry(url, local_path, word_tokens(p.text), <<>>)>>
    ELSE <<PageEntry(url, local_path, word_tokens(p.text),
                     word_tokens(_extract_visible_text(files[local_path])))>>

(* lines 40-48: a page without URL or without mirrored file is passed over *)
ComparePage(p, url, local_path, files) ==
    IF url = NoneUrl \/ local_path \notin DOMAIN files THEN <<>>
    ELSE <<PageEntry(url, local_path, word_tokens(p.text),
                     word_tokens(_extract_visible_text(files[local_path])))>>

RECURSIVE ComparePages(_, _)
ComparePages(pages, files) ==
    IF pages = <<>> THEN <<>>
    ELSE ComparePage(Head(pages).rec, Or(Head(pages).rec.final_url, Head(pages).rec.url),
                     url_to_site_relpath(Or(Head(pages).rec.final_url, Head(pages).rec.url)),
                     files)
         \o ComparePages(Tail(pages), files)

(* lines 34-88: compare() *)
Compare ==
    /\ pc = "built"
    /\ \E per_page \in {ComparePages(_load_pages(pages_dir), site_dir)} :
          compare_report' =
             <<[pages_compared |-> Len(per_page),
                pages_with_diffs |-> Len(SelectSeq(per_page, LAMBDA e : e.has_diffs)),
                pages |-> per_page]>>
    /\ pc' = "compared"
    /\ UNCHANGED <<site, extracted, cfg, robots, q, seen, seen_assets, pages_ok, pages_failed,
                   assets_saved, page_summaries, cur, record, asset_i, pages_dir, raw_html,
                   raw_bin, assets_dir, summary_json, fetch_log, asset_log, robots_failed>>
    /\ UNCHANGED <<site_dir, site_assets, build_summary, args, result>>

(* ------------------------------------------------------------------ *)
(* main(): crawl, then build, then compare                              *)
(* ------------------------------------------------------------------ *)
(* ------------------------------------------------------------------ *)
(* The functions of utils.py called on their own                        *)
(* ------------------------------------------------------------------ *)
(* the components a URL text is written from *)
Schemes == {"", "https", "HTTPS", "ftp", "mailto", "MAILTO", "tel", "JavaScript", "data"}

Netlocs == {"", "example.com", "Example.COM"}

UrlPaths == {<<>>, <<"/">>, <<"/", "x">>, <<"x">>}

Queries == {"", "q"}

Fragments == {"", "y"}

Pads == {<<>>, <<" ">>}

(* a netloc is followed by nothing or by a path that starts with a slash *)
UrlParts ==
    {p \in [scheme : Schemes, netloc : Netlocs, path : UrlPaths,
            query : Queries, fragment : Fragments] :
        p.netloc # "" => (p.path = <<>> \/ p.path[1] = "/")}

(* the text of a URL as one writes it from its components *)
Compose(p) ==
    (IF p.scheme # "" THEN <<p.scheme, ":">> ELSE <<>>)
    \o (IF p.netloc # "" THEN <<"/", "/", p.netloc>> ELSE <<>>)
    \o p.path
    \o (IF p.query # "" THEN <<"?", p.query>> ELSE <<>>)
    \o (IF p.fragment # "" THEN <<"#", p.fragment>> ELSE <<>>)

BaseAbout == <<"https", ":", "/", "/", "example.com", "/", "about", "/">>

BaseMixed == <<"HTTPS", ":", "/", "/", "Example.COM", "/", "a", "/", "b", "#", "z">>

BaseUrls == {NoneText, BaseAbout, BaseMixed}

NormalizeArgs ==
    {[op |-> "normalize_url", parts |-> p, url |-> pad \o Compose(p) \o pad, base_url |-> b] :
        p \in UrlParts, pad \in Pads, b \in BaseUrls}

(* normalize_url(url, base_url), and normalize_url of what it returned *)
Renormalized(normalized) ==
    IF normalized = NoneText THEN NoneText ELSE normalize_url_text(normalized, NoneText)

NormalizeResult(resolved, normalized) ==
    [op |-> "normalize_url", resolved |-> resolved, normalized |-> normalized,
     renormalized |-> Renormalized(normalized)]

CallNormalize ==
    /\ args.op = "normalize_url"
    /\ result = NoResult
    /\ result' = NormalizeResult(Resolved(args.url, args.base_url),
                                 normalize_url_text(args.url, args.base_url))
    /\ UNCHANGED <<crawl_vars, site_dir, site_assets, build_summary, compare_report, args>>

Init ==
    /\ CrawlInit
    /\ site_dir = EmptyDir
    /\ site_assets = {}
    /\ build_summary = <<>>
    /\ compare_report = <<>>
    /\ args = NoArgs
    /\ result = NoResult

CrawlStep ==
    /\ (StartRun \/ Dequeue \/ FetchAndExtract \/ Account \/ AssetStep \/ FinishRun)
    /\ UNCHANGED <<site_dir, site_assets, build_summary, compare_report, args, result>>

Next == CrawlStep \/ BuildFail \/ Build \/ Compare

Spec == Init /\ [][Next]_vars

(* the URLs same_domain is called on *)
OriginParts ==
    [scheme : {"https", "HTTPS", "ftp"},
     netloc : {"a.com", "A.com", "b.com", "a.com:8080", "user@a.com"},
     path : {<<"/", "x">>, <<"/", "y">>},
     query : {"", "q"},
     fragment : {""}]

SameDomainArgs ==
    {[op |-> "same_domain", parts_a |-> pa, parts_b |-> pb,
      url_a |-> Compose(pa), url_b |-> Compose(pb)] : pa \in OriginParts, pb \in OriginParts}

(* lines 46-49: same_domain(url_a, url_b) on URL texts *)
CallSameDomain ==
    /\ args.op = "same_domain"
    /\ result = NoResult
    /\ result' = [op |-> "same_domain",
                  same |-> same_domain(urlparse(args.url_a), urlparse(args.url_b))]
    /\ UNCHANGED <<crawl_vars, site_dir, site_assets, build_summary, compare_report, args>>

(* the URLs url_to_site_relpath is called on: a path of segments, and   *)
(* the same path with a slash after it                                    *)
SegmentNames ==
    {<<"about-us">>, <<"a">>, <<"blog">>, <<".", "hidden">>,
     <<"x", ".", "html">>, <<"c", ".", "html">>, <<"v1", ".", "2">>}

MaxSegments == 2

SegmentLists == UNION {[1..n -> SegmentNames] : n \in 0..MaxSegments}

PathOfSegments(segs) == IF segs = <<>> THEN <<>> ELSE <<"/">> \o Join(<<"/">>, segs)

UrlOfPath(path, query) ==
    Compose([scheme |-> "https", netloc |-> "example.com", path |-> path,
             query |-> query, fragment |-> ""])

(* the root is written with its slash or without it *)
SegmentPaths ==
    {[segs |-> segs, path |-> PathOfSegments(segs)] : segs \in SegmentLists}
    \cup {[segs |-> <<>>, path |-> <<"/">>]}

RelpathArgs ==
    {[op |-> "url_to_site_relpath", segs |-> sp.segs,
      url |-> UrlOfPath(sp.path, query),
      url_slash |-> UrlOfPath(sp.path \o <<"/">>, query)] :
        sp \in SegmentPaths, query \in {"", "q"}}

(* lines 79-101: url_to_site_relpath(url) on URL texts *)
CallRelpath ==
    /\ args.op = "url_to_site_relpath"
    /\ result = NoResult
    /\ result' = [op |-> "url_to_site_relpath",
                  relpath |-> url_to_site_relpath(urlparse(args.url)),
                  relpath_slash |-> url_to_site_relpath(urlparse(args.url_slash))]
    /\ UNCHANGED <<crawl_vars, site_dir, site_assets, build_summary, compare_report, args>>

(* the texts word_tokens is called on: every text of at most MaxTextLen *)
(* characters, and the text of the test                                   *)
TextChars == {"a", "_", ",", "!", " ", "\n", Nbsp}

MaxTextLen == 4

HelloWorld == <<"H", "e", "l", "l", "o", ",", " ", "w", "o", "r", "l", "d", "!">>

Texts == UNION {[1..n -> TextChars] : n \in 0..MaxTextLen} \cup {HelloWorld}

TokenArgs == {[op |-> "word_tokens", text |-> t] : t \in Texts}

(* lines 68-76: word_tokens(text) *)
CallWordTokens ==
    /\ args.op = "word_tokens"
    /\ result = NoResult
    /\ result' = [op |-> "word_tokens", tokens |-> word_tokens(args.text)]
    /\ UNCHANGED <<crawl_vars, site_dir, site_assets, build_summary, compare_report, args>>

(* the page records SiteBuilder finds: for each URL no record, or the   *)
(* record of a fetch that ended on a final URL                            *)
MirrorUrls == {About, AboutSlash, Docs, Deep}

FetchedRecord(url, final_url) == HtmlRecord(url, final_url, Page(site, final_url))

PagesDirs ==
    {[u \in present |-> finals[u]] :
        present \in SUBSET MirrorUrls, finals \in [MirrorUrls -> MirrorUrls]}

PagesDirOf(finals) ==
    [id \in {stable_id(u) : u \in DOMAIN finals} |->
        FetchedRecord(CHOOSE u \in DOMAIN finals : stable_id(u) = id,
                      finals[CHOOSE u \in DOMAIN finals : stable_id(u) = id])]

UrlToLocalArgs ==
    {[op |-> "url_to_local", pages |-> _load_pages(PagesDirOf(finals))] :
        finals \in PagesDirs}

(* lines 44-56 of site_builder.py: the map build() makes of the records *)
CallUrlToLocal ==
    /\ args.op = "url_to_local"
    /\ result = NoResult
    /\ result' = [op |-> "url_to_local", url_to_local |-> UrlToLocal(args.pages, EmptyDir)]
    /\ UNCHANGED <<crawl_vars, site_dir, site_assets, build_summary, compare_report, args>>

(* the calls of _rewrite_html: a document, the URL of its page, the seed *)
(* domain, a URL -> local path map and the copied asset files             *)
RewriteDocs ==
    {Page("dup", Root), Page("dup", Docs), Page("redir", Root), Page("redir", AboutSlash),
     Page("away", Other), Page("chain", Deep)}

LocalMaps ==
    {[u \in urls |-> url_to_site_relpath(u)] :
        urls \in SUBSET {Root, About, AboutSlash, Docs, Deep, Other}}

BasenameMaps ==
    UNION {ByBasenameChoices(names) :
             names \in SUBSET {AssetFileName(ScriptJs), AssetFileName(CdnJs),
                               AssetFileName(Logo)}}

RewriteArgs ==
    [op : {"_rewrite_html"}, doc : RewriteDocs, current_url : {Root, AboutSlash, Deep},
     seed_domain : {"example.com", "other.com"}, url_to_local : LocalMaps,
     by_basename : BasenameMaps]

(* lines 147-214 of site_builder.py: _rewrite_html *)
CallRewrite ==
    /\ args.op = "_rewrite_html"
    /\ result = NoResult
    /\ result' = [op |-> "_rewrite_html",
                  doc |-> _rewrite_html(args.doc, args.current_url, args.seed_domain,
                                        args.url_to_local, args.by_basename)]
    /\ UNCHANGED <<crawl_vars, site_dir, site_assets, build_summary, compare_report, args>>

(* the configuration the pipeline is left in while a function of utils.py *)
(* is called on its own                                                   *)
IdleCfg ==
    [start_url_arg |-> Root, max_pages |-> 0, max_depth |-> 0, same_domain_only |-> TRUE,
     download_assets |-> FALSE, respect_robots |-> FALSE]

UtilInit ==
    /\ CrawlInit
    /\ site = "two"
    /\ cfg = IdleCfg
    /\ site_dir = EmptyDir
    /\ site_assets = {}
    /\ build_summary = <<>>
    /\ compare_report = <<>>
    /\ \/ args \in NormalizeArgs
       \/ args \in SameDomainArgs
       \/ args \in RelpathArgs
       \/ args \in TokenArgs
       \/ args \in UrlToLocalArgs
       \/ args \in RewriteArgs
    /\ result = NoResult

UtilNext ==
    \/ CallNormalize \/ CallSameDomain \/ CallRelpath \/ CallWordTokens
    \/ CallUrlToLocal \/ CallRewrite

UtilSpec == UtilInit /\ [][UtilNext]_vars

(* run() is sequential and every fetch returns: a step of the crawl that  *)
(* can be taken is taken                                                  *)
FairSpec == Spec /\ WF_vars(CrawlStep)


(* ------------------------------------------------------------------ *)
(* Properties                                                           *)
(* ------------------------------------------------------------------ *)
FetchedUrls == {fetch_log[i].url : i \in DOMAIN fetch_log}

FetchCount(u) == Cardinality({i \in DOMAIN fetch_log : fetch_log[i].url = u})

(* C1: at every point of run() and in the summary it returns, pages_ok +  *)
(* pages_failed never exceeds max_pages (max_pages >= 0).                 *)
C1_BudgetRespected ==
    cfg.max_pages >= 0 =>
        /\ pages_ok + pages_failed <= cfg.max_pages
        /\ summary_json # <<>> =>
              summary_json[1].pages_ok + summary_json[1].pages_failed <= cfg.max_pages

(* the budget, not the frontier, ended the crawl *)
C1_Witness ==
    /\ pc = "crawled"
    /\ cfg.max_pages > 0
    /\ q # <<>>
    /\ summary_json[1].pages_ok + summary_json[1].pages_failed = cfg.max_pages
    /\ summary_json[1].pages_ok > 0
    /\ summary_json[1].pages_failed > 0

(* C2: within one run() every URL is fetched at most once, a URL is in    *)
(* the seen set when its fetch is issued, and on the site where A links   *)
(* to B twice and C links to B once, B, when in depth and budget, is      *)
(* fetched exactly once.                                                  *)
C2_FetchedAtMostOnce ==
    /\ \A i, j \in DOMAIN fetch_log : fetch_log[i].url = fetch_log[j].url => i = j
    /\ \A i \in DOMAIN fetch_log : fetch_log[i].seen
    /\ pc = "fetch" => cur.url \in seen
    /\ (/\ site = "dup"
        /\ pc = "crawled"
        /\ q = <<>>
        /\ cfg.max_depth >= 1
        /\ stable_id(Root) \in DOMAIN raw_html) => FetchCount(About) = 1

(* A and C were both fetched as HTML, so B was linked three times *)
C2_Witness ==
    /\ site = "dup"
    /\ pc = "crawled"
    /\ q = <<>>
    /\ stable_id(Root) \in DOMAIN raw_html
    /\ stable_id(Docs) \in DOMAIN raw_html
    /\ FetchCount(About) = 1

(* C3: every page run() fetches was dequeued with depth <= max_depth.     *)
C3_DepthCutoff ==
    /\ \A i \in DOMAIN fetch_log : fetch_log[i].depth <= cfg.max_depth
    /\ pc = "fetch" => cur.depth <= cfg.max_depth

(* a page first found at depth max_depth + 1 was dequeued and passed over *)
C3_Witness ==
    /\ site = "chain"
    /\ cfg.max_depth = 1
    /\ ~cfg.same_domain_only
    /\ ~robots.loaded
    /\ pc = "crawled"
    /\ About \in FetchedUrls
    /\ Docs \in seen
    /\ Docs \notin FetchedUrls

(* C4: run() terminates and writes the CrawlSummary, whatever the link    *)
(* graph, given that every fetch returns.                                 *)
C4_RunTerminates == <>(pc = "crawled" /\ summary_json # <<>>)

(* a crawl over a cyclic site (A links to B, B links back to A) ended *)
C4_Witness ==
    /\ site = "dup"
    /\ pc = "crawled"
    /\ summary_json # <<>>
    /\ stable_id(Root) \in DOMAIN raw_html
    /\ stable_id(About) \in DOMAIN raw_html

(* C5: every fetched URL has a persisted PageRecord under the id of the   *)
(* URL as enqueued, whether the fetch succeeded, raised or was non-HTML.  *)
C5_EveryFetchPersisted ==
    \A i \in DOMAIN fetch_log :
        /\ stable_id(fetch_log[i].url) \in DOMAIN pages_dir
        /\ pages_dir[stable_id(fetch_log[i].url)].url = fetch_log[i].url

(* C6: a PageRecord with an error has empty text, links and code blocks.  *)
ErrorRecordEmpty(rec) ==
    rec.error # None => rec.text = <<>> /\ rec.links = <<>> /\ rec.code_blocks = <<>>

C6_ErrorImpliesEmpty ==
    /\ ErrorRecordEmpty(record)
    /\ \A id \in DOMAIN pages_dir : ErrorRecordEmpty(pages_dir[id])

(* a non-HTML answer for a URL whose document has text, links and code *)
C6_Witness ==
    /\ pc = "account"
    /\ record.error = "Non-HTML content-type"
    /\ site = "dup"
    /\ record.url = Docs
    /\ \E id \in DOMAIN pages_dir : pages_dir[id].error = "exception"

(* C7: a fetch exception is recorded as a PageRecord with error set,      *)
(* adds one to pages_failed, leaves pages_ok alone and hands control back *)
(* to the loop with the frontier intact.                                  *)
C7_ExceptionNotFatal ==
    [][(pc = "account" /\ record.error = "exception") =>
          /\ pages_failed' = pages_failed + 1
          /\ pages_ok' = pages_ok
          /\ pc' = "loop"
          /\ q' = q
          /\ stable_id(record.url) \in DOMAIN pages_dir
          /\ pages_dir[stable_id(record.url)] = record]_vars

(* a page was fetched after another page's fetch had raised *)
C7_Witness ==
    \E i, j \in DOMAIN page_summaries :
        /\ i < j
        /\ page_summaries[i].error = "exception"
        /\ page_summaries[j].error = None

C9_RobotsRespected ==
    (cfg.respect_robots /\ robots.loaded) =>
        /\ \A i \in DOMAIN fetch_log : can_fetch(robots.rules, fetch_log[i].url)
        /\ \A i \in DOMAIN asset_log : can_fetch(robots.rules, asset_log[i])
        /\ pc = "fetch" => can_fetch(robots.rules, cur.url)

(* a disallowed page was dequeued and a disallowed asset was met, while   *)
(* allowed pages and assets were fetched                                  *)
C9_Witness ==
    /\ cfg.respect_robots
    /\ robots.loaded
    /\ pc = "crawled"
    /\ \/ /\ site = "redir"
          /\ Docs \in seen
          /\ Docs \notin FetchedUrls
          /\ asset_log # <<>>
       \/ /\ site = "dup"
          /\ cfg.download_assets
          /\ stable_id(Root) \in DOMAIN raw_html
          /\ asset_log = <<>>
          /\ Docs \in seen

(* C10: crawl, build and compare on the two-page site (max_pages = 10,    *)
(* max_depth = 2, every fetch answering HTML) give pages_ok = 2, two      *)
(* PageRecords, a mirror with index.html and about/index.html, and a      *)
(* report with pages_compared = 2 and pages_with_diffs = 0.               *)
C10_EndToEnd ==
    (/\ site = "two"
     /\ cfg.max_pages = 10
     /\ cfg.max_depth = 2
     /\ pc = "compared"
     /\ \A i \in DOMAIN fetch_log : fetch_log[i].outcome = None)
    => /\ pages_ok = 2
       /\ Cardinality(DOMAIN pages_dir) = 2
       /\ IndexHtml \in DOMAIN site_dir
       /\ <<"about", "/", "index", ".", "html">> \in DOMAIN site_dir
       /\ compare_report[1].pages_compared = 2
       /\ compare_report[1].pages_with_diffs = 0

(* the path compare() looks a record's mirror file up under *)
MirrorPath(rec) == url_to_site_relpath(Or(rec.final_url, rec.url))

(* the records compare() makes an entry for, in the order of the entries *)
ComparedRecords ==
    SelectSeq(_load_pages(pages_dir), LAMBDA p : MirrorPath(p.rec) \in DOMAIN site_dir)

(* a successfully crawled page whose mirror file is the one built from    *)
(* the page's own raw HTML                                                *)
MirrorOfOwnHtml(p) ==
    /\ p.rec.error = None
    /\ p.id \in DOMAIN raw_html
    /\ MirrorPath(p.rec) \in DOMAIN site_dir
    /\ site_dir[MirrorPath(p.rec)].nodes = raw_html[p.id].nodes

C12_BuildWithoutPagesFails ==
    [][(pc = "crawled" /\ DOMAIN pages_dir = {}) =>
          /\ pc' = "build_failed"
          /\ site_dir' = site_dir
          /\ IndexHtml \notin DOMAIN site_dir'
          /\ site_assets' = site_assets
          /\ build_summary' = <<>>]_vars

(* the crawl fetched the seed, the answer was not HTML and no record was  *)
(* persisted; build() raised                                              *)
C12_Witness ==
    /\ pc = "build_failed"
    /\ fetch_log # <<>>
    /\ DOMAIN pages_dir = {}
    /\ site_dir = EmptyDir

(* ------------------------------------------------------------------ *)
(* Properties of the functions of utils.py                              *)
(* ------------------------------------------------------------------ *)
(* the argument is a valid absolute URL: a scheme that is not rejected    *)
(* and a host                                                             *)
ValidAbsolute(p) ==
    /\ p.scheme \in {"https", "HTTPS", "ftp"}
    /\ p.netloc # ""

(* C13: for every valid absolute URL u (any casing of scheme and host,    *)
(* with or without fragment, with empty or non-empty path),               *)
(* normalize(normalize(u)) = normalize(u).                                *)
C13_NormalizeIdempotent ==
    (result.op = "normalize_url" /\ args.base_url = NoneText /\ ValidAbsolute(args.parts)) =>
        /\ result.normalized # NoneText
        /\ result.renormalized = result.normalized

(* an upper-case URL with an empty path and a fragment was normalized     *)
(* twice                                                                  *)
C13_Witness ==
    /\ result.op = "normalize_url"
    /\ args.base_url = NoneText
    /\ args.parts = [scheme |-> "HTTPS", netloc |-> "Example.COM", path |-> <<>>,
                     query |-> "q", fragment |-> "y"]
    /\ result.renormalized = <<"https", ":", "/", "/", "example.com", "/", "?", "q">>

(* the text is empty or whitespace only *)
Blank(t) == \A i \in 1..Len(t) : t[i] \in SpaceChars

RejectedSchemes == {"mailto", "tel", "javascript", "data"}

(* C14: normalize(raw, base) returns none exactly when raw is empty or    *)
(* whitespace only, or the resolved URL lacks a scheme or a host, or its  *)
(* scheme, whatever its casing, is mailto, tel, javascript or data.       *)
C14_NormalizeNoneExactlyWhen ==
    result.op = "normalize_url" =>
        /\ result.normalized = NoneText <=>
              \/ Blank(args.url)
              \/ result.resolved.scheme = ""
              \/ result.resolved.netloc = ""
              \/ Lower(result.resolved.scheme) \in RejectedSchemes
        /\ args.base_url = NoneText =>
              (result.normalized = NoneText <=>
                  \/ args.parts.scheme = ""
                  \/ args.parts.netloc = ""
                  \/ Lower(args.parts.scheme) \in RejectedSchemes)

(* a URL with a host was rejected for its scheme, written in mixed case *)
C14_Witness ==
    /\ result.op = "normalize_url"
    /\ args.parts.scheme = "JavaScript"
    /\ args.parts.netloc = "example.com"
    /\ result.normalized = NoneText

(* what normalize makes of the components of a URL *)
Normalized(u) ==
    [scheme |-> Lower(u.scheme), netloc |-> Lower(u.netloc),
     path |-> IF u.path = <<>> THEN <<"/">> ELSE u.path,
     query |-> u.query, fragment |-> ""]

(* C15: when normalize succeeds, its result is the URL resolved against   *)
(* the base with scheme and host lower-cased, the fragment removed and an *)
(* empty path replaced by "/", path and query unchanged; "/x#y" against   *)
(* the base "https://example.com/about/" gives "https://example.com/x".   *)
C15_NormalizeResult ==
    (result.op = "normalize_url" /\ result.normalized # NoneText) =>
        /\ urlparse(result.normalized) = Normalized(result.resolved)
        /\ args.base_url = NoneText =>
              result.normalized = Compose(Normalized(args.parts))
        /\ (args.url = <<"/", "x", "#", "y">> /\ args.base_url = BaseAbout) =>
              result.normalized = <<"https", ":", "/", "/", "example.com", "/", "x">>
        /\ (args.url = <<"x", "?", "q">> /\ args.base_url = BaseAbout) =>
              result.normalized
                 = <<"https", ":", "/", "/", "example.com", "/", "about", "/", "x", "?", "q">>

(* "/x#y" was normalized against the base "https://example.com/about/" *)
C15_Witness ==
    /\ result.op = "normalize_url"
    /\ args.url = <<"/", "x", "#", "y">>
    /\ args.base_url = BaseAbout
    /\ result.normalized # NoneText

(* the host of a netloc: userinfo and port left out, lower-cased *)
HostOf(netloc) ==
    CASE netloc \in {"a.com", "A.com", "a.com:8080", "user@a.com"} -> "a.com"
      [] OTHER -> Lower(netloc)

(* C16: same_origin(a, b) is true iff the lower-cased hosts of a and b    *)
(* are equal; scheme, port, userinfo, path and query play no part.        *)
C16_SameOriginComparesHosts ==
    result.op = "same_domain" =>
        (result.same <=> HostOf(args.parts_a.netloc) = HostOf(args.parts_b.netloc))

(* the last segments that have a file extension *)
FileNames == {<<"x", ".", "html">>, <<"c", ".", "html">>, <<"v1", ".", "2">>}

IndexOf(segs) ==
    IF segs = <<>> THEN <<"index", ".", "html">>
    ELSE IF segs[Len(segs)] \in FileNames THEN Join(<<"/">>, segs)
    ELSE Join(<<"/">>, segs) \o <<"/", "index", ".", "html">>

(* C17: the mirror path of the root is index.html, of a URL whose last   *)
(* segment has a file extension its path without the leading slash, of    *)
(* any other URL <path>/index.html; a slash after the path makes no       *)
(* difference.                                                            *)
C17_MirrorPathOfUrl ==
    result.op = "url_to_site_relpath" =>
        /\ result.relpath = IndexOf(args.segs)
        /\ result.relpath_slash = result.relpath

(* positions i..j of t hold characters of one class, none of them a space *)
OneRun(t, i, j) ==
    \A k \in i..j : ~IsSpace(t[k]) /\ (IsWord(t[k]) <=> IsWord(t[i]))

(* the positions where a maximal run starts *)
RunStarts(t) ==
    {i \in 1..Len(t) :
        /\ ~IsSpace(t[i])
        /\ (i = 1 \/ IsSpace(t[i - 1]) \/ ~(IsWord(t[i - 1]) <=> IsWord(t[i])))}

RunEnd(t, i) ==
    CHOOSE j \in i..Len(t) : OneRun(t, i, j) /\ (j = Len(t) \/ ~OneRun(t, i, j + 1))

NthStart(t, k) ==
    CHOOSE i \in RunStarts(t) : Cardinality({j \in RunStarts(t) : j < i}) = k - 1

(* C18: the tokens of a text are its maximal runs of word characters and *)
(* its maximal runs of non-word, non-space characters, in text order; no  *)
(* token holds whitespace and no other character is lost.                 *)
C18_TokensAreMaximalRuns ==
    result.op = "word_tokens" =>
        /\ Len(result.tokens) = Cardinality(RunStarts(args.text))
        /\ \A k \in 1..Len(result.tokens) :
              /\ result.tokens[k] =
                    SubSeq(args.text, NthStart(args.text, k),
                           RunEnd(args.text, NthStart(args.text, k)))
              /\ \A c \in 1..Len(result.tokens[k]) : ~IsSpace(result.tokens[k][c])
        /\ Join(<<>>, result.tokens) = SelectSeq(args.text, LAMBDA c : ~IsSpace(c))

C18_Witness ==
    /\ result.op = "word_tokens"
    /\ args.text = HelloWorld
    /\ result.tokens = <<<<"H", "e", "l", "l", "o">>, <<",">>,
                         <<"w", "o", "r", "l", "d">>, <<"!">>>>

(* C19: across one crawl each normalized URL is appended to the frontier *)
(* at most once: the frontier never holds two entries for one URL.        *)
C19_FrontierHoldsUrlOnce ==
    \A i \in 1..Len(q) : \A j \in 1..Len(q) : q[i].url = q[j].url => i = j

NoDuplicate(urls) ==
    \A i \in 1..Len(urls) : \A j \in 1..Len(urls) : urls[i] = urls[j] => i = j

(* C20: in every PageRecord, links and assets contain no URL twice: a    *)
(* page that references one normalized URL several times lists it once.   *)
C20_RecordListsUrlOnce ==
    \A id \in DOMAIN pages_dir :
        NoDuplicate(pages_dir[id].links) /\ NoDuplicate(pages_dir[id].assets)

(* ------------------------------------------------------------------ *)
(* Behaviour of the crawl loop                                          *)
(* ------------------------------------------------------------------ *)
(* the frontier entry is one the loop passes over *)
SkippedEntry(e) ==
    \/ e.url \in seen
    \/ e.depth > cfg.max_depth
    \/ (cfg.same_domain_only /\ e.url.netloc # _seed_domain)
    \/ (robots.loaded /\ ~can_fetch(robots.rules, e.url))

(* C21: dequeuing a frontier entry that is skipped (already seen, too    *)
(* deep, off-origin under same-origin-only, or disallowed by robots)      *)
(* issues no fetch and leaves pages_ok, pages_failed, assets_saved, the   *)
(* page summaries and all persisted files unchanged.                      *)
C21_SkipChangesNothing ==
    [][(pc = "loop" /\ q # <<>> /\ q' = Tail(q) /\ SkippedEntry(Head(q)))
        => /\ pc' = "loop"
           /\ UNCHANGED <<fetch_log, asset_log, pages_ok, pages_failed, assets_saved,
                          page_summaries, pages_dir, raw_html, raw_bin, assets_dir,
                          summary_json>>]_vars

C21_Witness ==
    /\ pc = "loop"
    /\ pages_ok >= 1
    /\ \E u \in seen :
          /\ \A i \in DOMAIN fetch_log : fetch_log[i].url # u
          /\ cfg.same_domain_only /\ u.netloc # _seed_domain

BudgetReached == pages_ok + pages_failed >= cfg.max_pages

(* C22: once pages_ok + pages_failed reaches max_pages the crawl halts:   *)
(* until run() returns no further frontier entry is dequeued and no       *)
(* further network fetch, of a page or of an asset, is issued.            *)
C22_BudgetIsHardStop ==
    [][(BudgetReached /\ pc \in {"loop", "fetch", "account", "assets"})
        => /\ fetch_log' = fetch_log
           /\ asset_log' = asset_log
           /\ (q # <<>> => q' # Tail(q))]_vars

(* C23: with same_domain_only on, every URL a page fetch or an asset      *)
(* download is issued on has the host of the seed URL, whatever the link  *)
(* graph, links and assets found on pages reached through redirects       *)
(* included.                                                              *)
C23_SameDomainOnly ==
    cfg.same_domain_only =>
        /\ \A i \in DOMAIN fetch_log : HostOf(fetch_log[i].url.netloc) = HostOf(start_url.netloc)
        /\ \A i \in DOMAIN asset_log : HostOf(asset_log[i].netloc) = HostOf(start_url.netloc)

(* a page reached through a redirect to another host named a page and an *)
(* asset of that host, and the crawl went on past them                    *)
C23_Witness ==
    /\ cfg.same_domain_only /\ cfg.download_assets
    /\ pc = "crawled"
    /\ \E i \in DOMAIN fetch_log :
          /\ Redirect(site, fetch_log[i].url).netloc # _seed_domain
          /\ fetch_log[i].outcome = None
    /\ \E u \in seen : u.netloc # _seed_domain
    /\ asset_log # <<>>
    /\ Len(fetch_log) >= 3

(* the links of a fetched page: those of its record *)
LinksOf(f) == IF f.outcome = None THEN extracted[f.url].links ELSE <<>>

LinksTo(f, url) == \E k \in 1..Len(LinksOf(f)) : LinksOf(f)[k] = url

(* C24: the frontier is FIFO and breadth-first: pages are fetched in      *)
(* non-decreasing depth order, and every fetched URL is fetched at the    *)
(* smallest depth at which it was ever enqueued, its shortest link        *)
(* distance from the seed through fetched pages.                          *)
C24_BreadthFirst ==
    /\ \A i \in DOMAIN fetch_log : \A j \in DOMAIN fetch_log :
          i <= j => fetch_log[i].depth <= fetch_log[j].depth
    /\ \A i \in DOMAIN fetch_log : \A k \in 1..Len(q) :
          q[k].url = fetch_log[i].url => q[k].depth >= fetch_log[i].depth
    /\ \A i \in DOMAIN fetch_log :
          /\ (fetch_log[i].depth = 0 <=> fetch_log[i].url = start_url)
          /\ fetch_log[i].depth > 0 =>
                \E j \in 1..(i - 1) :
                    /\ LinksTo(fetch_log[j], fetch_log[i].url)
                    /\ fetch_log[j].depth = fetch_log[i].depth - 1
          /\ \A j \in DOMAIN fetch_log :
                LinksTo(fetch_log[j], fetch_log[i].url)
                    => fetch_log[i].depth <= fetch_log[j].depth + 1

(* a URL two pages of different depths link to was fetched at the smaller *)
(* depth, and its deeper entry is still in the frontier                   *)
C24_Witness ==
    \E i \in DOMAIN fetch_log : \E k \in 1..Len(q) :
        /\ q[k].url = fetch_log[i].url
        /\ q[k].depth > fetch_log[i].depth
        /\ fetch_log[i].depth >= 1

NonHtmlAnswer == record.error = "Non-HTML content-type"

(* C25: a response that is not HTML is never parsed: its bytes are kept   *)
(* under raw/<id>.bin, the record has the error set and empty text,       *)
(* links, code blocks and assets, so nothing is enqueued and no asset is  *)
(* downloaded, and the page budget is still charged for the URL.          *)
C25_NonHtmlNotParsed ==
    /\ [](NonHtmlAnswer =>
            /\ stable_id(record.url) \in raw_bin
            /\ stable_id(record.url) \notin DOMAIN raw_html
            /\ record.text = <<>> /\ record.title = <<>>
            /\ record.links = <<>> /\ record.code_blocks = <<>> /\ record.assets = <<>>)
    /\ [][(pc = "account" /\ NonHtmlAnswer) =>
            /\ pages_failed' = pages_failed + 1
            /\ pages_ok' = pages_ok
            /\ q' = q
            /\ pc' = "loop"
            /\ UNCHANGED <<asset_log, assets_saved, seen_assets, assets_dir>>]_vars

(* the first page of site dup, which as HTML has links and assets, was    *)
(* answered as non-HTML with asset download on: the frontier is empty     *)
C25_Witness ==
    /\ pc = "loop"
    /\ NonHtmlAnswer
    /\ site = "dup" /\ record.url = Root
    /\ cfg.download_assets /\ cfg.max_pages > 1
    /\ pages_failed = 1 /\ pages_ok = 0
    /\ q = <<>>
    /\ asset_log = <<>>

(* C26: each distinct asset URL is saved at most once per crawl, and      *)
(* assets_saved is at every point the number of asset URLs in             *)
(* seen_assets; an asset several pages reference, or one page several     *)
(* times, is counted once.                                                *)
C26_AssetSavedOnce ==
    /\ [](assets_saved = Cardinality(seen_assets))
    /\ [][(assets_saved' # assets_saved \/ assets_dir' # assets_dir
           \/ seen_assets' # seen_assets) =>
            \E u \in {record.assets[asset_i]} :
                /\ u \notin seen_assets
                /\ AssetFileName(u) \notin assets_dir
                /\ seen_assets' = seen_assets \cup {u}
                /\ assets_dir' = assets_dir \cup {AssetFileName(u)}
                /\ assets_saved' = assets_saved + 1]_vars

(* the first page of site dup names /s.js twice: it was downloaded and    *)
(* counted once, with the asset of the other host                         *)
C26_Witness ==
    /\ pc = "loop"
    /\ site = "dup" /\ record.url = Root
    /\ asset_log = <<ScriptJs, CdnJs>>
    /\ seen_assets = {ScriptJs, CdnJs}
    /\ assets_saved = 2

(* ------------------------------------------------------------------ *)
(* Properties of SiteBuilder and SiteComparator                         *)
(* ------------------------------------------------------------------ *)
(* C27: after build() has made its URL -> local path map of any set of    *)
(* persisted records, the requested URL and the final URL of every        *)
(* record map to the same local file.                                     *)
C27_BothFormsSameFile ==
    result.op = "url_to_local" =>
        \A k \in 1..Len(args.pages) :
            /\ args.pages[k].rec.url \in DOMAIN result.url_to_local
            /\ args.pages[k].rec.final_url \in DOMAIN result.url_to_local
            /\ result.url_to_local[args.pages[k].rec.url]
                 = result.url_to_local[args.pages[k].rec.final_url]

(* the attribute value normalizes to a URL of the seed origin *)
SeedOrigin(val, a) ==
    val # EmptyRef /\ normalize_url(val, a.current_url) # NoneUrl
    /\ normalize_url(val, a.current_url).netloc = a.seed_domain

(* the href normalizes to a seed-origin URL that is in the map *)
MappedTarget(href, a) ==
    SeedOrigin(href, a) /\ normalize_url(href, a.current_url) \in DOMAIN a.url_to_local

(* the path of the target's file relative to the folder of the page's file *)
RelativeToPage(href, a) ==
    Ref(relpath(a.url_to_local[normalize_url(href, a.current_url)],
                ParentParts(a.url_to_local[a.current_url])), "")

(* the last path component of the asset URL names a copied asset *)
CopiedAsset(val, a) ==
    SeedOrigin(val, a)
    /\ PosixParts(normalize_url(val, a.current_url).path) # <<>>
    /\ basename(PosixParts(normalize_url(val, a.current_url).path)) \in DOMAIN a.by_basename

(* C28: when a page is rewritten, an <a href> is replaced, by the path of *)
(* the target's mirrored file relative to the page's mirrored location,   *)
(* iff it normalizes to a seed-origin URL that is in the URL -> path map; *)
(* every other href, and every asset attribute whose basename matches no  *)
(* copied asset, keeps its value.                                         *)
C28_RewriteOnlyMapped ==
    (result.op = "_rewrite_html" /\ args.current_url \in DOMAIN args.url_to_local) =>
        /\ Len(result.doc.hrefs) = Len(args.doc.hrefs)
        /\ Len(result.doc.assets) = Len(args.doc.assets)
        /\ \A k \in 1..Len(args.doc.hrefs) :
              result.doc.hrefs[k] =
                  IF MappedTarget(args.doc.hrefs[k], args)
                  THEN RelativeToPage(args.doc.hrefs[k], args)
                  ELSE args.doc.hrefs[k]
        /\ \A k \in 1..Len(args.doc.assets) :
              ~CopiedAsset(args.doc.assets[k], args)
                  => result.doc.assets[k] = args.doc.assets[k]

(* the first page of site dup, rewritten with only / and /about mirrored  *)
(* and no asset copied: the links to /about are replaced, the others and  *)
(* the asset attributes are as they were                                  *)
C28_Witness ==
    /\ result.op = "_rewrite_html"
    /\ args.doc = Page("dup", Root) /\ args.current_url = Root
    /\ args.seed_domain = "example.com"
    /\ DOMAIN args.url_to_local = {Root, About, Other}
    /\ args.by_basename = EmptyDir
    /\ result.doc.hrefs[1] = Ref(<<"about", "/", "index", ".", "html">>, "")
    /\ result.doc.hrefs[2] = Ref(<<"about", "/", "index", ".", "html">>, "")
    /\ result.doc.hrefs[3] = Ref(<<"/", "docs">>, "")
    /\ result.doc.hrefs[4] = Mailto
    /\ result.doc.assets = args.doc.assets

(* the persisted records whose mapped path is a file of the mirror *)
MirroredIds == {id \in DOMAIN pages_dir : MirrorPath(pages_dir[id]) \in DOMAIN site_dir}

EntryOf(rec, e) ==
    e.url = Or(rec.final_url, rec.url) /\ e.local_path = MirrorPath(rec)

(* C29: compare() counts a record in pages_compared and emits a per-page  *)
(* entry for it iff the mirror holds a file at the mapped path of its     *)
(* final, or else original, URL; the other records are passed over, so    *)
(* pages_with_diffs <= pages_compared <= the number of persisted records. *)
C29_ComparesMirroredOnly ==
    pc = "compared" =>
        /\ Len(compare_report) = 1
        /\ compare_report[1].pages_compared = Cardinality(MirroredIds)
        /\ Len(compare_report[1].pages) = Cardinality(MirroredIds)
        /\ \A id \in DOMAIN pages_dir :
              (id \in MirroredIds) <=>
                  \E k \in 1..Len(compare_report[1].pages) :
                      EntryOf(pages_dir[id], compare_report[1].pages[k])
        /\ compare_report[1].pages_with_diffs <= compare_report[1].pages_compared
        /\ compare_report[1].pages_compared <= Cardinality(DOMAIN pages_dir)

(* a crawl with a page that was mirrored and compared and a record of a   *)
(* failed fetch that has no file in the mirror                            *)
C29_Witness ==
    /\ pc = "compared"
    /\ compare_report[1].pages_compared >= 1
    /\ \E id \in DOMAIN pages_dir : id \notin MirroredIds
    /\ \E id \in DOMAIN pages_dir : id \in MirroredIds

(* the records build() wrote a page for: those with a raw HTML file *)
WrittenPages == SelectSeq(_load_pages(pages_dir), LAMBDA p : p.id \in DOMAIN raw_html)

(* C30: after build() returns, for every record counted in pages_written  *)
(* the file at the record's mapped mirror path holds the record's own     *)
(* rewritten HTML: no other record and no later step of build(), the      *)
(* root index.html included, overwrites it, so pages_written is the       *)
(* number of distinct mirrored page files.                                *)
C30_PagesNotOverwritten ==
    pc = "built" =>
        /\ build_summary[1].pages_written = Len(WrittenPages)
        /\ \A k \in 1..Len(WrittenPages) :
              /\ MirrorPath(WrittenPages[k].rec) \in DOMAIN site_dir
              /\ site_dir[MirrorPath(WrittenPages[k].rec)].nodes
                   = raw_html[WrittenPages[k].id].nodes
        /\ build_summary[1].pages_written
             = Cardinality({MirrorPath(WrittenPages[k].rec) : k \in 1..Len(WrittenPages)})

====
